---- MODULE Spec2Model ----
(***************************************************************************)
(* A model of lib/folder_tree.js: the collapsible folder tree drawn with   *)
(* d3 (v4).  The state is the hierarchy built by load(), the per-node      *)
(* properties the code reads and writes (children, _children, id, x, y,    *)
(* row, x0, y0), the svg elements of class "node" and "link" in document   *)
(* order, and the selections of the last update() call.  Colours, fonts    *)
(* and the svg height are presentation and are not part of the state.      *)
(***************************************************************************)
EXTENDS Integers, Sequences, FiniteSets, TLC

\* Largest number of nodes of a loaded document.
MaxNodes == 4

\* Largest number of nodes of a document whose 'children' list is empty.
MaxEmpty == 1

\* Row-level constants of FolderTree.
row_height == 27
indentation == 22
icon_width == 14
source_vertical_offset == -7
target_vertical_offset == -16

VARIABLES
    tooltip_key,   \* constructor argument
    root,          \* 0 while unset; the root node once loaded
    thrown,        \* TRUE once the d3.json callback has thrown the load error
    data,          \* data[n]: payload of node n (name, optional children list)
    parent,        \* parent[n]: 0 for the root
    depth,
    children,      \* children[n]: the own property 'children' of node n
    _children,     \* _children[n]: the own property '_children' of node n
    node_id,       \* node_id[n]: the property 'id' of node n, 0 while undefined
    id,            \* the node index counter
    x, y, row,     \* set by the layout pass
    x0, y0,        \* stashed positions
    nodeElems,     \* the svg elements of class "node", in document order
    linkElems,     \* the svg elements of class "link", in document order
    animating,     \* transitions of the last pass are still running
    pass,          \* the selections of the last update() call
    clicked,       \* the node of the last click, 0 if none
    before         \* the node properties as they were when the last click began

vars == <<tooltip_key, root, thrown, data, parent, depth, children, _children,
          node_id, id, x, y, row, x0, y0, nodeElems, linkElems, animating,
          pass, clicked, before>>

----------------------------------------------------------------------------
\* JavaScript values held by the properties 'children' and '_children'.

\* The property is not an own property; reading it yields undefined.
Absent == [own |-> FALSE, kind |-> "undefined", list |-> <<>>]

\* d.p = v: the property becomes an own property holding the value of v.
Assign(v) == [own |-> TRUE, kind |-> v.kind, list |-> v.list]

\* d.children = null
NullValue == [own |-> TRUE, kind |-> "null", list |-> <<>>]

\* An array of child nodes.
ArrayValue(s) == [own |-> TRUE, kind |-> "array", list |-> s]

\* Object.hasOwn(d, p)
hasOwn(slot) == slot.own

----------------------------------------------------------------------------
\* Constructor arguments: the kinds of value passed as tooltip_key.
KeyNull == [type |-> "null", str |-> ""]
KeyUndefined == [type |-> "undefined", str |-> ""]
KeyNumber == [type |-> "number", str |-> ""]
KeyString(s) == [type |-> "string", str |-> s]

TooltipKeys == {KeyNull, KeyString("tip")}

\* The sanity check of tooltip_key.
tooltip_key_str ==
    IF tooltip_key # KeyNull
    THEN IF tooltip_key.type = "string" THEN tooltip_key ELSE KeyNull
    ELSE KeyNull

----------------------------------------------------------------------------
\* Documents: ordered trees with nodes numbered in document (pre-)order.

RECURSIVE AncOrSelf(_, _)
AncOrSelf(p, i) == IF i = 0 THEN {} ELSE {i} \cup AncOrSelf(p, p[i])

\* The parent vectors of the ordered trees with n nodes.
RECURSIVE Shapes(_)
Shapes(n) ==
    IF n = 1 THEN {<<0>>}
    ELSE UNION {{Append(p, q) : q \in AncOrSelf(p, n - 1)} : p \in Shapes(n - 1)}

RECURSIVE ChildList(_, _, _)
ChildList(p, i, from) ==
    IF from > Len(p) THEN <<>>
    ELSE IF p[from] = i THEN <<from>> \o ChildList(p, i, from + 1)
    ELSE ChildList(p, i, from + 1)

\* The documents d3.json can deliver: every node has a name; a node with
\* child nodes lists them under 'children'; a node without child nodes has
\* either no 'children' field or an empty one.
TreeDocuments ==
    UNION {UNION {{[n \in 1..Len(p) |->
                      [name |-> n,
                       has_children |-> (ChildList(p, n, 1) # <<>> \/ n \in e),
                       children |-> ChildList(p, n, 1)]]
                   : e \in {f \in SUBSET {n \in 1..Len(p) : ChildList(p, n, 1) = <<>>} :
                                Cardinality(f) <= MaxEmpty}}
                  : p \in Shapes(k)} : k \in 1..MaxNodes}

\* A document with two sibling folders of one file each: root{a{x}, b{y}}.
TwoFolders ==
    <<[name |-> 1, has_children |-> TRUE, children |-> <<2, 4>>],
      [name |-> 2, has_children |-> TRUE, children |-> <<3>>],
      [name |-> 3, has_children |-> FALSE, children |-> <<>>],
      [name |-> 4, has_children |-> TRUE, children |-> <<5>>],
      [name |-> 5, has_children |-> FALSE, children |-> <<>>]>>

Documents == TreeDocuments \cup {TwoFolders}

----------------------------------------------------------------------------
\* d3.hierarchy(data): parent and depth of every node; 'children' is created
\* only for a node whose data lists at least one child.

ParentOf(doc, n) ==
    IF \E m \in DOMAIN doc : \E k \in DOMAIN doc[m].children : doc[m].children[k] = n
    THEN CHOOSE m \in DOMAIN doc : \E k \in DOMAIN doc[m].children : doc[m].children[k] = n
    ELSE 0

RECURSIVE DepthOf(_, _)
DepthOf(doc, n) == IF ParentOf(doc, n) = 0 THEN 0 ELSE 1 + DepthOf(doc, ParentOf(doc, n))

\* A hierarchy that starts with only the root Expanded.
hierarchy_children_root_only(doc, n) ==
    IF n = 1 /\ doc[n].has_children /\ Len(doc[n].children) > 0
    THEN ArrayValue(doc[n].children)
    ELSE Absent

hierarchy_children(doc, n) ==
    IF doc[n].has_children /\ Len(doc[n].children) > 0
    THEN ArrayValue(doc[n].children)
    ELSE Absent

----------------------------------------------------------------------------
\* Traversals of d3-hierarchy; each descends into node.children when it is
\* truthy, that is, when it holds an array.

Kids(ch, n) == IF ch[n].kind = "array" THEN ch[n].list ELSE <<>>

RECURSIVE Flatten(_)
Flatten(ss) == IF ss = <<>> THEN <<>> ELSE Head(ss) \o Flatten(Tail(ss))

\* node.eachBefore: pre-order, a node before its children, children in order.
RECURSIVE eachBefore(_, _)
eachBefore(ch, n) ==
    <<n>> \o Flatten([k \in DOMAIN Kids(ch, n) |-> eachBefore(ch, Kids(ch, n)[k])])

\* node.each: breadth-first, level by level.
RECURSIVE each(_, _)
each(ch, level) ==
    IF level = <<>> THEN <<>>
    ELSE level \o each(ch, Flatten([k \in DOMAIN level |-> Kids(ch, level[k])]))

\* rt.descendants()
descendants(ch, rt) == each(ch, <<rt>>)

Range(s) == {s[i] : i \in DOMAIN s}

\* root.links(): one {source, target} per node other than the root.
links(ch, rt, par) ==
    LET ds == each(ch, <<rt>>)
        nonroot == SelectSeq(ds, LAMBDA n : n # rt)
    IN  [k \in DOMAIN nonroot |-> [source |-> par[nonroot[k]], target |-> nonroot[k]]]

\* The position of n in the sequence s (0 if absent).
IndexIn(s, n) == IF \E i \in DOMAIN s : s[i] = n
                 THEN CHOOSE i \in DOMAIN s : s[i] = n /\ \A j \in 1..(i - 1) : s[j] # n
                 ELSE 0

----------------------------------------------------------------------------
\* A glyph chosen by 'children' alone: a Collapsed folder is shown as a file.
folder_icon_no_closed(c, _c) == IF hasOwn(c) THEN "open" ELSE "file"

\* Open folder / closed folder / file glyphicons.
folder_icon(c, _c) ==
    IF hasOwn(c) THEN "open" ELSE (IF hasOwn(_c) THEN "closed" ELSE "file")

\* No filter: every entering glyphicon gets the click handler.
click_filter_all(c, _c) == TRUE

\* The filter that decides which entering glyphicons get the click handler.
click_filter(c, _c) == hasOwn(c) \/ hasOwn(_c)

\* normalize without the test for a re-entering node.
normalize_unguarded(dat, c, _c) ==
    IF dat.has_children /\ Len(dat.children) = 0 THEN NullValue ELSE c

\* normalize left out: 'children' stays as d3.hierarchy made it.
normalize_never(dat, c, _c) == c

\* The first half of the filter callback: a node whose data has an empty
\* 'children' array gets 'children' (null), unless it is re-entering.
normalize(dat, c, _c) ==
    IF dat.has_children /\ Len(dat.children) = 0
    THEN IF ~hasOwn(c) /\ ~hasOwn(_c) THEN NullValue ELSE c
    ELSE c

\* A key function that numbers the datum on every call.
key_fresh(st, d) ==
    [ids |-> [st.ids EXCEPT ![d] = st.ctr + 1], ctr |-> st.ctr + 1]

\* The key function of the node join: d.id || (d.id = ++id).
key(st, d) ==
    IF st.ids[d] # 0 THEN st
    ELSE [ids |-> [st.ids EXCEPT ![d] = st.ctr + 1], ctr |-> st.ctr + 1]

\* The key function called on every datum of ds in turn.
RECURSIVE keys(_, _)
keys(st, ds) == IF ds = <<>> THEN st ELSE keys(key(st, Head(ds)), Tail(ds))

----------------------------------------------------------------------------
\* The data join of selection.data(data, key) (d3-selection, bindKey): the
\* first element carrying a key is joined to the first datum with that key;
\* other elements exit, other data enter.

\* The join without a key function: datum j is joined to element j.
JoinedElem_byIndex(ids, group, ds, j) == IF j <= Len(group) THEN j ELSE 0

\* The element (index into group) bound to the datum at index j, 0 if it enters.
JoinedElem(ids, group, ds, j) ==
    IF (\E i \in DOMAIN group : ids[group[i]] = ids[ds[j]])
       /\ (\A j2 \in 1..(j - 1) : ids[ds[j2]] # ids[ds[j]])
    THEN CHOOSE i \in DOMAIN group :
            /\ ids[group[i]] = ids[ds[j]]
            /\ \A i2 \in 1..(i - 1) : ids[group[i2]] # ids[ds[j]]
    ELSE 0

\* The data indices of the enter selection.
EnterIdx(ids, group, ds) == {j \in DOMAIN ds : JoinedElem(ids, group, ds, j) = 0}

\* The element indices of the update selection.
UpdateIdx(ids, group, ds) ==
    {JoinedElem(ids, group, ds, j) : j \in DOMAIN ds} \ {0}

\* The element indices of the exit selection.
ExitIdx(ids, group, ds) == DOMAIN group \ UpdateIdx(ids, group, ds)

\* enter().append: an entering element is inserted before the element of the
\* next datum of the update selection, or at the end.  NextOf is the index of
\* that element, 0 for the end.
NextOf(ids, group, ds, j) ==
    IF \E j2 \in (j + 1)..Len(ds) : JoinedElem(ids, group, ds, j2) # 0
    THEN JoinedElem(ids, group, ds,
            CHOOSE j2 \in (j + 1)..Len(ds) :
                /\ JoinedElem(ids, group, ds, j2) # 0
                /\ \A j3 \in (j + 1)..(j2 - 1) : JoinedElem(ids, group, ds, j3) = 0)
    ELSE 0

\* The data join of selection.data(data) without a key (bindIndex): element i
\* is joined to datum i.
IndexUpdate(m, n) == 1..(IF m < n THEN m ELSE n)
IndexEnter(m, n) == (m + 1)..n
IndexExit(m, n) == (n + 1)..m

\* The path of a link: M mx,my V v.
link_path(dep, rw, d) ==
    <<dep[d.source] * indentation + icon_width \div 2,
      rw[d.source] * row_height + source_vertical_offset,
      rw[d.target] * row_height + target_vertical_offset>>

\* The path of an entering or exiting link, folded at the pivot.
pivot_path(dep, rw, source) ==
    <<dep[source] * indentation + icon_width \div 2,
      rw[source] * row_height + source_vertical_offset,
      rw[source] * row_height + source_vertical_offset>>

----------------------------------------------------------------------------
\* A layout pass in post-order: the children of a node before the node.
RECURSIVE layout_order_after(_, _)
layout_order_after(ch, rt) ==
    Flatten([k \in DOMAIN Kids(ch, rt) |-> layout_order_after(ch, Kids(ch, rt)[k])]) \o <<rt>>

\* A layout pass over every node of the hierarchy.
layout_order_all(ch, rt) == [n \in DOMAIN ch |-> n]

\* The layout pass: the nodes visited by root.eachBefore, in order.
layout_order(ch, rt) == eachBefore(ch, rt)

\* 'row' starting at 0.
layout_row_from_zero(k) == k

\* n.row of the k-th visited node: 'row' starts at -1 and is incremented first.
layout_row(k) == -1 + k

\* A toggle whose collapse leaves 'children' in place.
toggle_keep(c, _c) ==
    IF hasOwn(c)
    THEN [children |-> c, _children |-> Assign(c)]
    ELSE [children |-> Assign(_c), _children |-> Absent]

\* A toggle whose expand leaves '_children' in place.
toggle_expand_keeps(c, _c) ==
    IF hasOwn(c)
    THEN [children |-> Absent, _children |-> Assign(c)]
    ELSE [children |-> Assign(_c), _children |-> _c]

\* A toggle whose collapse stores null instead of the child list.
toggle_lossy(c, _c) ==
    IF hasOwn(c)
    THEN [children |-> Absent, _children |-> NullValue]
    ELSE [children |-> Assign(_c), _children |-> Absent]

\* The toggle of click(d): the new values of d.children and d._children.
toggle(c, _c) ==
    IF hasOwn(c)
    THEN [children |-> Absent, _children |-> Assign(c)]
    ELSE [children |-> Assign(_c), _children |-> Absent]

\* A collapse that also collapses every Expanded node below d.
RECURSIVE BelowOrSelf(_, _)
BelowOrSelf(ch, d) ==
    {d} \cup UNION {BelowOrSelf(ch, Kids(ch, d)[k]) : k \in DOMAIN Kids(ch, d)}

click_toggle_deep(ch, _ch, d) ==
    IF hasOwn(ch[d])
    THEN [children |-> [n \in DOMAIN ch |->
                            IF n \in BelowOrSelf(ch, d) /\ hasOwn(ch[n]) THEN Absent ELSE ch[n]],
          _children |-> [n \in DOMAIN ch |->
                            IF n \in BelowOrSelf(ch, d) /\ hasOwn(ch[n])
                            THEN Assign(ch[n]) ELSE _ch[n]]]
    ELSE [children |-> [ch EXCEPT ![d] = Assign(_ch[d])],
          _children |-> [_ch EXCEPT ![d] = Absent]]

\* click(d) on the tree: only the properties of d are written.
click_toggle(ch, _ch, d) ==
    [children |-> [ch EXCEPT ![d] = toggle(ch[d], _ch[d]).children],
     _children |-> [_ch EXCEPT ![d] = toggle(ch[d], _ch[d])._children]]

\* A new element of class "node" for the entering datum d: its handlers, its
\* glyph, and the end values (target, fade) of its transition.
entering_node(d, ch, _ch, to, hover) ==
    [d |-> d,
     click |-> click_filter(ch[d], _ch[d]),
     glyph |-> folder_icon(ch[d], _ch[d]),
     hover |-> hover,
     target |-> to, fade |-> 1, exiting |-> FALSE]

\* The transition of the update selection runs over the removal that an
\* earlier exit transition has scheduled, and the element is removed all the
\* same when that one ends.
transition_to_removed(e, to) == [e EXCEPT !.target = to, !.fade = 1]

\* nodes.transition() on an element of the update selection.  A transition
\* scheduled on an element replaces the one in flight on it, and the removal
\* at the end of an exit transition is dropped once a later transition is
\* scheduled on the same element.
transition_to(e, to) == [e EXCEPT !.target = to, !.fade = 1, !.exiting = FALSE]

\* update(source) on the state s (the properties of the nodes and the
\* elements drawn); the result is the state after the call.
update(source, s) ==
    LET rt == s.root
        data_nodes == descendants(s.children, rt)
        \* Calculate the position of each node
        order == layout_order(s.children, rt)
        visited == Range(order)
        nrow == [n \in DOMAIN s.row |->
                    IF n \in visited THEN layout_row(IndexIn(order, n)) ELSE s.row[n]]
        nx == [n \in DOMAIN s.x |->
                    IF n \in visited THEN s.depth[n] * indentation ELSE s.x[n]]
        ny == [n \in DOMAIN s.y |->
                    IF n \in visited THEN nrow[n] * row_height ELSE s.y[n]]
        \* Update the nodes' data: the key of every element, then of every datum
        group == [i \in DOMAIN s.nodeElems |-> s.nodeElems[i].d]
        keyed == keys(keys([ids |-> s.node_id, ctr |-> s.id], group), data_nodes)
        ids == keyed.ids
        enterIdx == EnterIdx(ids, group, data_nodes)
        updateIdx == UpdateIdx(ids, group, data_nodes)
        exitIdx == ExitIdx(ids, group, data_nodes)
        enterSeq == SelectSeq([j \in DOMAIN data_nodes |-> j], LAMBDA j : j \in enterIdx)
        entering == [k \in DOMAIN enterSeq |-> data_nodes[enterSeq[k]]]
        \* The filter callback on the entering glyphicons
        nch == [n \in DOMAIN s.children |->
                    IF n \in Range(entering)
                    THEN normalize(s.data[n], s.children[n], s._children[n])
                    ELSE s.children[n]]
        hover == tooltip_key_str # KeyNull
        newElem(j) == entering_node(data_nodes[j], nch, s._children,
                                    <<nx[data_nodes[j]], ny[data_nodes[j]]>>, hover)
        \* The element at index i after the transitions are scheduled
        oldElem(i) ==
            IF i \in updateIdx
            THEN LET j == CHOOSE j \in DOMAIN data_nodes :
                               JoinedElem(ids, group, data_nodes, j) = i
                 IN  [transition_to(s.nodeElems[i], <<nx[data_nodes[j]], ny[data_nodes[j]]>>)
                        EXCEPT !.d = data_nodes[j]]
            ELSE [s.nodeElems[i] EXCEPT
                        !.target = <<nx[source], ny[source]>>,
                        !.fade = 0, !.exiting = TRUE]
        insertedBefore(i) ==
            LET js == SelectSeq([j \in DOMAIN data_nodes |-> j], LAMBDA j :
                          j \in enterIdx /\ NextOf(ids, group, data_nodes, j) = i)
            IN  [k \in DOMAIN js |-> newElem(js[k])]
        nelems == Flatten([i \in DOMAIN s.nodeElems |->
                              insertedBefore(i) \o <<oldElem(i)>>])
                  \o insertedBefore(0)
        \* Update the links' data
        lgroup == [i \in DOMAIN s.linkElems |-> s.linkElems[i].d]
        ls == links(s.children, rt, s.parent)
        m == Len(lgroup)
        n == Len(ls)
        folded == pivot_path(s.depth, nrow, source)
        oldLink(i) ==
            IF i \in IndexUpdate(m, n)
            THEN [s.linkElems[i] EXCEPT
                        !.d = ls[i],
                        !.target = link_path(s.depth, nrow, ls[i]),
                        !.exiting = FALSE]
            ELSE [s.linkElems[i] EXCEPT !.target = folded, !.exiting = TRUE]
        newLink(i) == [d |-> ls[i],
                       target |-> link_path(s.depth, nrow, ls[i]), exiting |-> FALSE]
        nlinks == [i \in 1..(IF m < n THEN n ELSE m) |->
                      IF i \in IndexEnter(m, n) THEN newLink(i) ELSE oldLink(i)]
        \* Stash the old positions for transition
        shown == Range(data_nodes)
        nx0 == [k \in DOMAIN s.x0 |-> IF k \in shown THEN nx[k] ELSE s.x0[k]]
        ny0 == [k \in DOMAIN s.y0 |-> IF k \in shown THEN ny[k] ELSE s.y0[k]]
    IN  [s EXCEPT
            !.children = nch,
            !.node_id = ids, !.id = keyed.ctr,
            !.x = nx, !.y = ny, !.row = nrow, !.x0 = nx0, !.y0 = ny0,
            !.nodeElems = nelems, !.linkElems = nlinks,
            !.pass = [source |-> source,
                      data_nodes |-> data_nodes,
                      visited |-> order,
                      group |-> group,
                      enter |-> entering,
                      update |-> updateIdx,
                      exit |-> exitIdx,
                      enter_at |-> <<s.x0[source], s.y0[source]>>,
                      enter_opacity |-> 0,
                      exit_to |-> <<nx[source], ny[source]>>,
                      link_fold |-> folded,
                      link_group |-> lgroup,
                      links |-> ls,
                      link_enter |-> IndexEnter(m, n),
                      link_update |-> IndexUpdate(m, n),
                      link_exit |-> IndexExit(m, n)]]

----------------------------------------------------------------------------
\* No update() call has been made yet.
NoPass == [source |-> 0, data_nodes |-> <<>>, visited |-> <<>>, group |-> <<>>,
           enter |-> <<>>, update |-> {}, exit |-> {},
           enter_at |-> <<>>, enter_opacity |-> 0, exit_to |-> <<>>,
           link_fold |-> <<>>,
           link_group |-> <<>>, links |-> <<>>,
           link_enter |-> {}, link_update |-> {}, link_exit |-> {}]

\* The node properties a round trip is compared with.
NoOrigin == [children |-> <<>>, _children |-> <<>>, node_id |-> <<>>,
             data |-> <<>>, shown |-> {}]

NoSnapshot == [children |-> <<>>, _children |-> <<>>, node_id |-> <<>>,
               shown |-> {}, row |-> <<>>, x |-> <<>>, y |-> <<>>,
               x0 |-> <<>>, y0 |-> <<>>,
               origin |-> NoOrigin]

\* The state update() works on.
State == [root |-> root, data |-> data, parent |-> parent, depth |-> depth,
          children |-> children, _children |-> _children,
          node_id |-> node_id, id |-> id,
          x |-> x, y |-> y, row |-> row, x0 |-> x0, y0 |-> y0,
          nodeElems |-> nodeElems, linkElems |-> linkElems, pass |-> pass]

\* The variables take the values of the state t.
Becomes(t) ==
    /\ root' = t.root
    /\ data' = t.data
    /\ parent' = t.parent
    /\ depth' = t.depth
    /\ children' = t.children
    /\ _children' = t._children
    /\ node_id' = t.node_id
    /\ id' = t.id
    /\ x' = t.x
    /\ y' = t.y
    /\ row' = t.row
    /\ x0' = t.x0
    /\ y0' = t.y0
    /\ nodeElems' = t.nodeElems
    /\ linkElems' = t.linkElems
    /\ pass' = t.pass

\* The state FolderTree() leaves behind, whatever tooltip_key is.
Constructed ==
    /\ root = 0
    /\ thrown = FALSE
    /\ data = <<>>
    /\ parent = <<>>
    /\ depth = <<>>
    /\ children = <<>>
    /\ _children = <<>>
    /\ node_id = <<>>
    /\ id = 0
    /\ x = <<>>
    /\ y = <<>>
    /\ row = <<>>
    /\ x0 = <<>>
    /\ y0 = <<>>
    /\ nodeElems = <<>>
    /\ linkElems = <<>>
    /\ animating = FALSE
    /\ pass = NoPass
    /\ clicked = 0
    /\ before = NoSnapshot

Init ==
    /\ tooltip_key \in TooltipKeys
    /\ Constructed

\* Every kind of value of tooltip_key: null, a key, the empty string, a
\* missing argument, a value that is no string.
AllTooltipKeys == {KeyNull, KeyString("tip"), KeyString(""), KeyUndefined, KeyNumber}

InitTooltip ==
    /\ tooltip_key \in AllTooltipKeys
    /\ Constructed

\* The body of the d3.json callback after the error test: the hierarchy of
\* doc, the root at the origin, the first update.  A position not yet
\* computed is -1.
load_callback(doc) ==
    LET ns == DOMAIN doc
        hier == [State EXCEPT
                   !.root = 1,
                   !.data = doc,
                   !.parent = [n \in ns |-> ParentOf(doc, n)],
                   !.depth = [n \in ns |-> DepthOf(doc, n)],
                   !.children = [n \in ns |-> hierarchy_children(doc, n)],
                   !._children = [n \in ns |-> Absent],
                   !.node_id = [n \in ns |-> 0],
                   !.x = [n \in ns |-> -1],
                   !.y = [n \in ns |-> -1],
                   !.row = [n \in ns |-> -1],
                   !.x0 = [n \in ns |-> IF n = 1 THEN 0 ELSE -1],
                   !.y0 = [n \in ns |-> IF n = 1 THEN 0 ELSE -1]]
    IN  update(1, hier)

\* The callback of d3.json with the document doc and no error.  The host
\* page calls load once.
Load(doc) ==
    /\ root = 0
    /\ ~thrown
    /\ Becomes(load_callback(doc))
    /\ animating' = TRUE
    /\ UNCHANGED <<tooltip_key, thrown, clicked, before>>

\* A callback that throws the error only after it has rendered a root.
LoadError_renders ==
    /\ root = 0
    /\ ~thrown
    /\ thrown' = TRUE
    /\ Becomes(load_callback(<<[name |-> 1, has_children |-> FALSE, children |-> <<>>]>>))
    /\ animating' = TRUE
    /\ UNCHANGED <<tooltip_key, clicked, before>>

\* The callback of d3.json with an error: it throws.
LoadError ==
    /\ root = 0
    /\ ~thrown
    /\ thrown' = TRUE
    /\ UNCHANGED <<tooltip_key, root, data, parent, depth, children, _children,
                   node_id, id, x, y, row, x0, y0, nodeElems, linkElems,
                   animating, pass, clicked, before>>

\* A click on the glyphicon of the element at index i, which carries the
\* click handler.
click(i) ==
    /\ i \in DOMAIN nodeElems
    /\ nodeElems[i].click
    /\ LET d == nodeElems[i].d
           t == click_toggle(children, _children, d)
           toggled == [State EXCEPT
                         !.children = t.children,
                         !._children = t._children,
                         !.nodeElems[i].glyph = folder_icon(t.children[d], t._children[d])]
       IN  /\ Becomes(update(d, toggled))
           /\ clicked' = d
           /\ before' = [children |-> children, _children |-> _children,
                         node_id |-> node_id,
                         shown |-> Range(descendants(children, root)),
                         row |-> row, x |-> x, y |-> y,
                         x0 |-> x0, y0 |-> y0,
                         \* kept when this click repeats the last one: the
                         \* properties as they were before that one
                         origin |-> IF clicked = d
                                    THEN [children |-> before.children,
                                          _children |-> before._children,
                                          node_id |-> before.node_id,
                                          data |-> data,
                                          shown |-> before.shown]
                                    ELSE NoOrigin]
    /\ animating' = TRUE
    /\ UNCHANGED <<tooltip_key, thrown>>

\* The transitions of the last pass end: every element has reached the end
\* values of its transition and the exiting elements are removed.
Settle ==
    /\ animating
    /\ nodeElems' = SelectSeq(nodeElems, LAMBDA e : ~e.exiting)
    /\ linkElems' = SelectSeq(linkElems, LAMBDA e : ~e.exiting)
    /\ animating' = FALSE
    /\ UNCHANGED <<tooltip_key, root, thrown, data, parent, depth, children,
                   _children, node_id, id, x, y, row, x0, y0, pass, clicked, before>>

Next ==
    \/ \E doc \in Documents : Load(doc)
    \/ LoadError
    \/ \E i \in DOMAIN nodeElems : click(i)
    \/ Settle

Spec == Init /\ [][Next]_vars

\* The same program constructed with every kind of tooltip_key.
SpecTooltip == InitTooltip /\ [][Next]_vars

----------------------------------------------------------------------------
\* Vocabulary of the properties.

Loaded == root # 0

NodeSet == DOMAIN parent

\* The proper ancestors of n, by the parent links.
RECURSIVE Ancestors(_)
Ancestors(n) == IF parent[n] = 0 THEN {} ELSE {parent[n]} \cup Ancestors(parent[n])

Expanded(n) == hasOwn(children[n])
Collapsed(n) == hasOwn(_children[n])

\* A node is visible when every ancestor is Expanded.
Visible(n) == \A a \in Ancestors(n) : Expanded(a)
VisibleSet == {n \in NodeSet : Visible(n)}

\* The payload of n declares an empty children list.
EmptyFolder(n) == data[n].has_children /\ Len(data[n].children) = 0

\* a comes before b in the pre-order of the document: a is an ancestor of b,
\* or below their lowest common ancestor the branch of a is listed first.
Branch(n, c) == CHOOSE k \in (Ancestors(n) \cup {n}) : parent[k] = c
DocBefore(a, b) ==
    \/ a \in Ancestors(b)
    \/ /\ b \notin Ancestors(a)
       /\ a # b
       /\ LET common == (Ancestors(a) \cap Ancestors(b))
              lca == CHOOSE c \in common : \A c2 \in common : depth[c2] <= depth[c]
          IN  IndexIn(data[lca].children, Branch(a, lca))
                < IndexIn(data[lca].children, Branch(b, lca))

\* The nodes of a sequence of nodes, and whether none occurs twice.
NoRepeats(seq) == \A i, j \in DOMAIN seq : seq[i] = seq[j] => i = j

----------------------------------------------------------------------------
\* C1: the layout pass of update() assigns a row to exactly the nodes all of
\* whose ancestors are Expanded, each once; a node under a Collapsed ancestor
\* is not visited.
C1_LayoutVisitsVisible ==
    Loaded => /\ Range(pass.visited) = VisibleSet
              /\ NoRepeats(pass.visited)

\* C1 witness: a click pass has run while some node sits under a Collapsed
\* ancestor.
C1_Witness ==
    /\ Loaded
    /\ clicked # 0
    /\ \E n \in NodeSet : \E a \in Ancestors(n) : Collapsed(a)

\* C2: after every layout pass the rows of the visible nodes are 0..N-1 without
\* gap or duplicate, in pre-order (root first, ancestors before descendants,
\* siblings in input order), with x = depth * indentation, y = row * row_height.
C2_RowsContiguousPreOrder ==
    Loaded =>
        /\ {row[n] : n \in VisibleSet} = 0..(Cardinality(VisibleSet) - 1)
        /\ \A a, b \in VisibleSet : row[a] = row[b] => a = b
        /\ row[root] = 0
        /\ \A a, b \in VisibleSet : DocBefore(a, b) => row[a] < row[b]
        /\ \A n \in VisibleSet : /\ x[n] = depth[n] * indentation
                                 /\ y[n] = row[n] * row_height

\* C2 witness: after a collapse a visible node has moved up to a row other
\* than its row in the fully expanded tree.
C2_Witness ==
    /\ Loaded
    /\ clicked # 0
    /\ \E n \in VisibleSet : row[n] # before.row[n] /\ row[n] > 0

\* C3: clicking an Expanded node X and then X again, with no other click in
\* between, restores the visible set, the child list of X and every node's
\* identity, payload and own Expanded/Collapsed state.
C3_RoundTrip ==
    (clicked # 0 /\ before.origin # NoOrigin /\ hasOwn(before.origin.children[clicked]))
        => /\ children = before.origin.children
           /\ _children = before.origin._children
           /\ node_id = before.origin.node_id
           /\ data = before.origin.data
           /\ VisibleSet = before.origin.shown

\* C3 witness: X with a child list has been collapsed and re-expanded, and a
\* child of X is itself Collapsed.
C3_Witness ==
    /\ clicked # 0
    /\ before.origin # NoOrigin
    /\ hasOwn(before.origin.children[clicked])
    /\ \E k \in Range(Kids(children, clicked)) : Collapsed(k)

\* C4: a click on X, with the pass it triggers, changes the presence and the
\* content of 'children' and '_children' on X only.
C4_ToggleLocality ==
    clicked # 0 =>
        \A n \in NodeSet \ {clicked} :
            /\ children[n] = before.children[n]
            /\ _children[n] = before._children[n]

\* C4 witness: a click has toggled X and its pass has drawn other folders anew.
C4_Witness ==
    /\ clicked # 0
    /\ children[clicked] # before.children[clicked]
    /\ \E n \in Range(pass.enter) : Expanded(n) \/ Collapsed(n)

\* C5 as claimed: a node whose payload declares an empty children list is a
\* Leaf: no click handler, the file icon, neither Expanded nor Collapsed.
C5_EmptyIsLeaf ==
    Loaded =>
        \A i \in DOMAIN nodeElems :
            EmptyFolder(nodeElems[i].d) =>
                /\ ~nodeElems[i].click
                /\ nodeElems[i].glyph = "file"
                /\ ~Expanded(nodeElems[i].d)
                /\ ~Collapsed(nodeElems[i].d)

\* C5 amended: a node whose payload declares an empty children list is an
\* empty folder: its first render gives it 'children' (null), so it is Expanded
\* right after the load; its element carries the click handler and shows the
\* open or closed folder icon of its state, never the file icon.
C5_EmptyIsFolder ==
    Loaded =>
        /\ \A n \in NodeSet :
              EmptyFolder(n) =>
                /\ Expanded(n) # Collapsed(n)
                /\ (Expanded(n) => children[n] = NullValue)
                /\ (Collapsed(n) => _children[n] = NullValue)
                /\ (clicked = 0 => Expanded(n))
        /\ \A i \in DOMAIN nodeElems :
              EmptyFolder(nodeElems[i].d) =>
                /\ nodeElems[i].click
                /\ nodeElems[i].glyph = (IF Expanded(nodeElems[i].d) THEN "open" ELSE "closed")

\* C5 witness: right after the load a node with an empty children list is drawn.
C5_Witness ==
    /\ Loaded
    /\ clicked = 0
    /\ \E i \in DOMAIN nodeElems : EmptyFolder(nodeElems[i].d)

\* C6 as claimed: at most one of 'children' and '_children' is present on a
\* node; exactly one on a node that has child nodes, neither on a node that
\* has none.
C6_SlotsByChildNodes ==
    Loaded =>
        \A n \in NodeSet :
            /\ ~(Expanded(n) /\ Collapsed(n))
            /\ (Len(data[n].children) > 0 => (Expanded(n) \/ Collapsed(n)))
            /\ (Len(data[n].children) = 0 => (~Expanded(n) /\ ~Collapsed(n)))

\* C6 amended: at most one of 'children' and '_children' is present on a node;
\* exactly one on a node whose payload has a 'children' field (empty or not),
\* neither on a node whose payload has no 'children' field.
C6_SlotsByChildrenField ==
    Loaded =>
        \A n \in NodeSet :
            /\ ~(Expanded(n) /\ Collapsed(n))
            /\ (data[n].has_children => (Expanded(n) \/ Collapsed(n)))
            /\ (~data[n].has_children => (~Expanded(n) /\ ~Collapsed(n)))

\* C6 witness: after clicks, the tree holds a Collapsed node with a child that
\* has no 'children' field, and an Expanded node.
C6_Witness ==
    /\ clicked # 0
    /\ \E n \in NodeSet : Collapsed(n) /\ \E k \in Range(Kids(_children, n)) : ~data[k].has_children
    /\ \E n \in NodeSet : Expanded(n)

\* C7: a node with an empty children list that is rendered again keeps its
\* 'children'/'_children' exactly as they were before the pass; a Collapsed one
\* stays Collapsed.
C7_NormalizeOnce ==
    clicked # 0 =>
        \A n \in Range(pass.enter) :
            EmptyFolder(n) =>
                /\ children[n] = before.children[n]
                /\ _children[n] = before._children[n]
                /\ (hasOwn(before._children[n]) => Collapsed(n) /\ ~Expanded(n))

\* C7 witness: a Collapsed node with an empty children list has re-entered.
C7_Witness ==
    /\ clicked # 0
    /\ \E n \in Range(pass.enter) : EmptyFolder(n) /\ Collapsed(n)

\* C8: a node's id never changes once assigned, every assigned id is a
\* positive value of the counter, every rendered node has one, and no two
\* nodes hold the same id.
C8_IdentityStableUnique ==
    Loaded =>
        /\ \A n \in NodeSet : node_id[n] # 0 => node_id[n] \in 1..id
        /\ \A n \in Range(pass.data_nodes) : node_id[n] # 0
        /\ \A a, b \in NodeSet : (node_id[a] # 0 /\ node_id[a] = node_id[b]) => a = b
        /\ clicked # 0 =>
              \A n \in NodeSet : before.node_id[n] # 0 => node_id[n] = before.node_id[n]

\* C8 witness: a node that was removed from the drawing has been rendered
\* again by a later click.
C8_Witness ==
    /\ clicked # 0
    /\ ~animating
    /\ pass.enter # <<>>
    /\ \A n \in Range(pass.enter) : node_id[n] # 0

\* C9: in every pass the entering nodes are the visible nodes without a drawn
\* element, the updating ones the visible nodes with a drawn element, the
\* exiting ones the drawn elements whose node is not visible; the three are
\* disjoint, and without the exiting elements the drawing holds exactly one
\* element per visible node.
C9_EnterUpdateExit ==
    Loaded =>
        LET drawn == Range(pass.group)
            updating == {pass.group[i] : i \in pass.update}
            exiting == {pass.group[i] : i \in pass.exit}
            kept == SelectSeq(nodeElems, LAMBDA e : ~e.exiting)
            keptNodes == [k \in DOMAIN kept |-> kept[k].d]
        IN  /\ Range(pass.enter) = VisibleSet \ drawn
            /\ NoRepeats(pass.enter)
            /\ updating = VisibleSet \cap drawn
            /\ exiting = drawn \ VisibleSet
            /\ pass.update \cap pass.exit = {}
            /\ pass.update \cup pass.exit = DOMAIN pass.group
            /\ Range(pass.enter) \cap (updating \cup exiting) = {}
            /\ Range(keptNodes) = VisibleSet
            /\ NoRepeats(keptNodes)

\* C9 witness: one pass has entering, updating and exiting elements.
C9_Witness ==
    /\ clicked # 0
    /\ pass.enter # <<>>
    /\ pass.update # {}
    /\ pass.exit # {}

\* The links between visible nodes.
VisibleLinks == {[source |-> parent[n], target |-> n] : n \in VisibleSet \ {root}}

\* C10 as claimed: connectors are reconciled by parent-child pair: the exiting
\* connectors are the drawn ones whose pair is no longer a visible link, the
\* entering ones the visible links without a drawn connector, and a connector
\* that persists stays bound to its pair.
C10_LinksByPair ==
    Loaded =>
        /\ {pass.link_group[i] : i \in pass.link_exit}
              = Range(pass.link_group) \ VisibleLinks
        /\ {pass.links[i] : i \in pass.link_enter}
              = VisibleLinks \ Range(pass.link_group)
        /\ \A i \in pass.link_update : pass.links[i] = pass.link_group[i]

\* The child list of n, whichever of 'children' and '_children' holds it.
AllKids(n) == Kids(children, n) \o Kids(_children, n)

\* The nodes reachable from n through 'children' and '_children'.
RECURSIVE TreeNodes(_)
TreeNodes(n) == {n} \cup UNION {TreeNodes(AllKids(n)[k]) : k \in DOMAIN AllKids(n)}

\* C11: after any sequence of clicks the nodes reachable from the root through
\* 'children' or '_children' are the nodes built at load time, with their
\* parent, depth and sibling order; the removal of a drawn element removes no
\* node from the tree.
C11_TreePreserved ==
    Loaded =>
        /\ TreeNodes(root) = DOMAIN data
        /\ parent[root] = 0
        /\ depth[root] = 0
        /\ \A n \in DOMAIN data :
              /\ AllKids(n) = data[n].children
              /\ \A k \in Range(AllKids(n)) : parent[k] = n /\ depth[k] = depth[n] + 1

\* C11 witness: the transitions have ended and a node under a Collapsed
\* ancestor has no drawn element any more.
C11_Witness ==
    /\ Loaded
    /\ clicked # 0
    /\ ~animating
    /\ \E n \in NodeSet :
          /\ \E a \in Ancestors(n) : Collapsed(a)
          /\ \A i \in DOMAIN nodeElems : nodeElems[i].d # n

\* C12: the click handler is only on elements whose node has 'children' or
\* '_children'; click() never runs on a node with neither, and no click gives
\* 'children' or '_children' to a node that had neither.
C12_NoToggleOnLeaf ==
    Loaded =>
        /\ \A i \in DOMAIN nodeElems :
              nodeElems[i].click => (Expanded(nodeElems[i].d) \/ Collapsed(nodeElems[i].d))
        /\ clicked # 0 =>
              /\ hasOwn(before.children[clicked]) \/ hasOwn(before._children[clicked])
              /\ \A n \in NodeSet :
                    (~hasOwn(before.children[n]) /\ ~hasOwn(before._children[n]))
                        => (~Expanded(n) /\ ~Collapsed(n))

\* C12 witness: after a click a node with neither property has been drawn
\* again, without a click handler.
C12_Witness ==
    /\ clicked # 0
    /\ \E i \in DOMAIN nodeElems :
          /\ nodeElems[i].d \in Range(pass.enter)
          /\ ~nodeElems[i].click
          /\ ~Expanded(nodeElems[i].d) /\ ~Collapsed(nodeElems[i].d)

\* C13: when the loader reports an error it is thrown and nothing is rendered:
\* the root stays unset, no pass runs, no element is drawn, nothing is loaded
\* afterwards.
C13_LoadErrorRendersNothing ==
    thrown =>
        /\ root = 0
        /\ data = <<>>
        /\ pass = NoPass
        /\ nodeElems = <<>>
        /\ linkElems = <<>>
        /\ id = 0
        /\ ~animating

\* C13 witness: the callback has thrown the error.
C13_Witness == thrown /\ root = 0

\* The document of Scenario A: root{a, b{c}}.
ScenarioA ==
    <<[name |-> 1, has_children |-> TRUE, children |-> <<2, 3>>],
      [name |-> 2, has_children |-> FALSE, children |-> <<>>],
      [name |-> 3, has_children |-> TRUE, children |-> <<4>>],
      [name |-> 4, has_children |-> FALSE, children |-> <<>>]>>

\* C14: after the load and before any click every node with a non-empty
\* children list is Expanded and every node is visible; root{a, b{c}} gets the
\* rows 0, 1, 2, 3; the pivot of the first pass is the root, entering at (0,0).
C14_LoadExpandsAll ==
    (Loaded /\ clicked = 0) =>
        /\ \A n \in NodeSet : Len(data[n].children) > 0 => Expanded(n)
        /\ VisibleSet = NodeSet
        /\ Range(pass.visited) = NodeSet
        /\ pass.source = root
        /\ pass.enter_at = <<0, 0>>
        /\ (data = ScenarioA => row = <<0, 1, 2, 3>>)

\* C14 witness: Scenario A has been loaded and not clicked.
C14_Witness ==
    /\ Loaded
    /\ clicked = 0
    /\ data = ScenarioA
    /\ row = <<0, 1, 2, 3>>

\* C15 as claimed: the hover listeners are on the node labels exactly when
\* tooltip_key is a non-empty string; with null, no argument, the empty string
\* or a value that is no string, no node has them in any pass.
C15_HoverOnlyForNonEmptyKey ==
    \A i \in DOMAIN nodeElems :
        nodeElems[i].hover <=> (tooltip_key.type = "string" /\ tooltip_key.str # "")

----------------------------------------------------------------------------
\* The position the layout of the last pass gives node n: its place in the
\* order of visit, read from the pass and not from n.x and n.y.
PassPosition(n) ==
    <<depth[n] * indentation, (IndexIn(pass.visited, n) - 1) * row_height>>

\* C16 as claimed: in the pass of a click on X the pivot is X; an entering
\* node is created at X's previous (x0, y0) with opacity 0 and moves to its own
\* new position; an exiting node moves to the (x, y) that this pass computed
\* for X, fades out and is removed when the transitions end.
C16_PivotAnchoring ==
    clicked # 0 =>
        /\ pass.source = clicked
        /\ pass.enter_at = <<before.x0[clicked], before.y0[clicked]>>
        /\ pass.enter_opacity = 0
        /\ \A i \in DOMAIN nodeElems :
             nodeElems[i].d \in Range(pass.enter) =>
                /\ nodeElems[i].target = PassPosition(nodeElems[i].d)
                /\ nodeElems[i].fade = 1
        /\ clicked \in Range(pass.visited)
        /\ pass.exit_to = PassPosition(clicked)
        /\ \A i \in DOMAIN nodeElems :
             nodeElems[i].exiting => /\ nodeElems[i].target = PassPosition(clicked)
                                     /\ nodeElems[i].fade = 0
        /\ ~animating => \A i \in DOMAIN nodeElems : ~nodeElems[i].exiting

\* C20 as claimed: the node a click toggles has all its ancestors Expanded at
\* the moment of the click, and the pass the click triggers lays the pivot
\* out, so the anchors are the values of that pass.
C20_PivotVisible ==
    clicked # 0 =>
        /\ \A a \in Ancestors(clicked) : hasOwn(before.children[a])
        /\ clicked \in before.shown
        /\ clicked \in Range(pass.visited)

\* The nodes of the drawn elements of class "node", in document order.
Drawn == [i \in DOMAIN nodeElems |-> nodeElems[i].d]

\* C17: a click while transitions are in flight is safe.  Every pass runs on
\* the toggled state, gives every element of a visible node the target of this
\* pass and leaves no node with two elements; when the transitions have ended
\* the drawn nodes are the visible ones, each at its position of the last pass.
C17_ClickInFlightSafe ==
    Loaded =>
        /\ Range(pass.data_nodes) = VisibleSet
        /\ NoRepeats(Drawn)
        /\ VisibleSet \subseteq Range(Drawn)
        /\ \A i \in DOMAIN nodeElems :
             /\ nodeElems[i].exiting <=> ~Visible(nodeElems[i].d)
             /\ ~nodeElems[i].exiting =>
                    /\ nodeElems[i].target = PassPosition(nodeElems[i].d)
                    /\ nodeElems[i].target = <<x[nodeElems[i].d], y[nodeElems[i].d]>>
                    /\ nodeElems[i].fade = 1
        /\ ~animating => Range(Drawn) = VisibleSet

\* C17 witness: the transitions have ended after a click that found the
\* element of a node still exiting, and that node is visible again.
C17_Witness ==
    /\ clicked # 0
    /\ ~animating
    /\ \E i \in DOMAIN pass.group :
         /\ pass.group[i] \notin before.shown
         /\ Visible(pass.group[i])

\* C18: the glyph of every drawn element is that of its node's state: the
\* open folder iff the node has 'children', the closed folder iff it has
\* '_children', the file iff it has neither; so for the clicked element and
\* for a node that enters again.
C18_GlyphFollowsState ==
    \A i \in DOMAIN nodeElems :
        LET n == nodeElems[i].d
        IN  /\ nodeElems[i].glyph \in {"open", "closed", "file"}
            /\ nodeElems[i].glyph = "open" <=> Expanded(n)
            /\ nodeElems[i].glyph = "closed" <=> Collapsed(n)
            /\ nodeElems[i].glyph = "file" <=> (~Expanded(n) /\ ~Collapsed(n))

\* C18 witness: the pass of a click on an ancestor draws anew a node that was
\* Collapsed before it went out of the drawing.
C18_Witness ==
    /\ clicked # 0
    /\ \E i \in DOMAIN nodeElems :
         /\ nodeElems[i].d \in Range(pass.enter)
         /\ nodeElems[i].d # clicked
         /\ Collapsed(nodeElems[i].d)
         /\ nodeElems[i].glyph = "closed"

\* C19: a click on a visible node X leaves the row and the position of X and
\* of every visible node before X in pre-order as they were, so in its pass
\* the previous position (x0, y0) of the pivot is its current (x, y), and
\* entering and exiting rows and connectors are anchored at one point.
C19_PivotStaysPut ==
    (clicked # 0 /\ clicked \in before.shown) =>
        /\ \A n \in before.shown :
             (n = clicked \/ DocBefore(n, clicked)) =>
                /\ Visible(n)
                /\ row[n] = before.row[n]
                /\ x[n] = before.x[n]
                /\ y[n] = before.y[n]
        /\ <<before.x0[clicked], before.y0[clicked]>> = <<x[clicked], y[clicked]>>
        /\ pass.enter_at = pass.exit_to
        /\ pass.link_fold = pivot_path(depth, before.row, clicked)

\* C19 witness: a visible node with a visible node before it that is not its
\* ancestor has been clicked, and rows went out of the drawing in that pass.
C19_Witness ==
    /\ clicked # 0
    /\ clicked \in before.shown
    /\ \E n \in before.shown : DocBefore(n, clicked) /\ n \notin Ancestors(clicked)
    /\ pass.exit # {}
    /\ \E n \in VisibleSet : row[n] # before.row[n]

====
